---- MODULE Spec2Model ----
(***************************************************************************)
(* State-machine model of SAF_LCA_Model (src/LCA_calculation.py): the      *)
(* stage parameter store, the calculation engine calculate_lca, the        *)
(* emission-reduction reporter and the electricity-source sweep.           *)
(*                                                                         *)
(* Quantities are Python floats in the source.  They are modelled as exact *)
(* rationals <<numerator, denominator>> in lowest terms with a positive    *)
(* denominator, so equal quantities are equal values.  A Python dict is a  *)
(* function from keys to values; the empty dict is the empty function.     *)
(***************************************************************************)
EXTENDS Integers, Sequences, FiniteSets, TLC

VARIABLES functional_unit,      \* self.functional_unit
          feedstock_data,       \* self.feedstock_data
          conversion_data,      \* self.conversion_data
          distribution_data,    \* self.distribution_data
          use_phase_data,       \* self.use_phase_data
          carbon_capture_data,  \* self.carbon_capture_data
          electrolysis_data,    \* self.electrolysis_data
          results,              \* self.results
          last,                 \* the last call: name, arguments, outcome
          sweeps                \* the analyses in progress, step by step

vars == <<functional_unit, feedstock_data, conversion_data, distribution_data,
          use_phase_data, carbon_capture_data, electrolysis_data, results, last,
          sweeps>>

(***************************************************************************)
(* Float arithmetic, as exact rationals.                                   *)
(***************************************************************************)
RECURSIVE GCD(_, _)
GCD(a, b) == IF b = 0 THEN a ELSE GCD(b, a % b)

Abs(a) == IF a < 0 THEN -a ELSE a

Rat(n, d) ==
    LET g == GCD(Abs(n), Abs(d))
        s == IF d < 0 THEN -1 ELSE 1
    IN  <<(s * n) \div g, (s * d) \div g>>

N(i) == <<i, 1>>

IsZero(a) == a[1] = 0

Add(a, b) ==
    LET g == GCD(a[2], b[2])
        m == b[2] \div g
        k == a[2] \div g
    IN  Rat(a[1] * m + b[1] * k, a[2] * m)

Neg(a) == <<-a[1], a[2]>>

Sub(a, b) == Add(a, Neg(b))

\* both factors are in lowest terms, so the cross-reduced product is too
Mul(a, b) ==
    LET g1 == GCD(Abs(a[1]), b[2])
        g2 == GCD(Abs(b[1]), a[2])
    IN  <<(a[1] \div g1) * (b[1] \div g2), (a[2] \div g2) * (b[2] \div g1)>>

\* a / b for b # 0; the callers raise ZeroDivisionError before dividing by 0
Div(a, b) == Mul(a, IF b[1] < 0 THEN <<-b[2], -b[1]>> ELSE <<b[2], b[1]>>)

\* Python's None, where a float argument is optional
None == <<0, 0>>

\* the empty dict {}
EmptyDict == <<>>

\* dict.get(key, default)
Get(d, key, default) == IF key \in DOMAIN d THEN d[key] ELSE default

(***************************************************************************)
(* Bounds and the inputs the calls are made with.                          *)
(***************************************************************************)
MaxSources == 1

\* the tags the setter is called with: one in the table and one that is not
SourceTags == {"coal", "fusion"}

\* the tags the sweeps are made over: one in the table and one that is not
SweepTags == {"wind", "fusion"}

\* the units the model is constructed with: two supported ones and one not
Units == {"MJ", "L", "gal"}

SupportedUnits == {"MJ", "kg", "L"}

EnergyDensityArgs == {N(0), N(40)}

\* a capture efficiency in percent, and the 0 the later division fails on
CaptureEfficiencyArgs == {N(0), N(50)}

IntensityArgs == {None, Rat(1, 2)}

\* <<co2_electrolysis_efficiency, water_electrolysis_efficiency,
\*   electricity_source, electricity_carbon_intensity>>: every source and
\* intensity with working efficiencies, and each efficiency once as 0
ElectrolysisArgs ==
    {<<N(50), N(75), source, intensity>> :
        source \in SourceTags, intensity \in IntensityArgs}
    \cup {<<N(0), N(75), "coal", None>>, <<N(50), N(0), "coal", None>>}

\* <<syngas_requirement, co_h2_ratio>>: the ratio left out, and the -1 that
\* makes 1 + co_h2_ratio zero
ConversionArgs == {<<N(2), None>>, <<N(2), N(-1)>>}

FossilArgs == {N(89)}

RECURSIVE SeqsUpTo(_, _)
SeqsUpTo(S, n) ==
    IF n = 0 THEN {<<>>}
    ELSE LET shorter == SeqsUpTo(S, n - 1)
         IN  shorter \cup {Append(q, x) : q \in shorter, x \in S}

\* the electricity_sources argument: a list, or None for the default list
NoSources == <<"None">>

SourceListArgs == SeqsUpTo(SweepTags, MaxSources) \cup {NoSources}

(***************************************************************************)
(* The object.                                                             *)
(***************************************************************************)
EmptyResults ==
    [ghg_emissions |-> EmptyDict, energy_consumption |-> EmptyDict,
     water_usage |-> EmptyDict, land_use |-> EmptyDict]

__init__(unit) ==
    [functional_unit |-> unit,
     feedstock_data |-> EmptyDict,
     conversion_data |-> EmptyDict,
     distribution_data |-> EmptyDict,
     use_phase_data |-> EmptyDict,
     carbon_capture_data |-> EmptyDict,
     electrolysis_data |-> EmptyDict,
     results |-> EmptyResults]

Self ==
    [functional_unit |-> functional_unit,
     feedstock_data |-> feedstock_data,
     conversion_data |-> conversion_data,
     distribution_data |-> distribution_data,
     use_phase_data |-> use_phase_data,
     carbon_capture_data |-> carbon_capture_data,
     electrolysis_data |-> electrolysis_data,
     results |-> results]

(***************************************************************************)
(* The setters.                                                            *)
(***************************************************************************)
set_feedstock_data(self, type, ghg, energy, water, land, yield) ==
    [self EXCEPT !.feedstock_data =
        [type |-> type, ghg_emissions |-> ghg, energy_input |-> energy,
         water_usage |-> water, land_use |-> land, yield_rate |-> yield]]

set_conversion_data(self, technology, efficiency, ghg, energy, water, syngas_requirement, co_h2_ratio) ==
    LET base == [technology |-> technology, efficiency |-> efficiency,
                 ghg_emissions |-> ghg, energy_input |-> energy,
                 water_usage |-> water]
        withSyngas == IF syngas_requirement # None
                      THEN base @@ [syngas_requirement |-> syngas_requirement]
                      ELSE base
        withRatio == IF co_h2_ratio # None
                     THEN withSyngas @@ [co_h2_ratio |-> co_h2_ratio]
                     ELSE withSyngas
    IN  [self EXCEPT !.conversion_data = withRatio]

set_distribution_data(self, distance, mode, ghg, energy) ==
    [self EXCEPT !.distribution_data =
        [transport_distance |-> distance, transport_mode |-> mode,
         ghg_emissions |-> ghg, energy_input |-> energy]]

set_use_phase_data(self, combustion_emissions, energy_density) ==
    [self EXCEPT !.use_phase_data =
        [combustion_emissions |-> combustion_emissions,
         energy_density |-> energy_density]]

set_carbon_capture_data(self, capture_efficiency, energy_requirement, ghg, water, co2_capture_rate) ==
    [self EXCEPT !.carbon_capture_data =
        [capture_efficiency |-> capture_efficiency,
         energy_requirement |-> energy_requirement,
         ghg_emissions |-> ghg, water_usage |-> water,
         co2_capture_rate |-> co2_capture_rate]]

\* kg CO2e/kWh
electricity_carbon_intensities ==
    [grid_global |-> Rat(475, 1000), grid_eu |-> Rat(253, 1000),
     grid_china |-> Rat(638, 1000), grid_us |-> Rat(389, 1000),
     natural_gas |-> Rat(410, 1000), coal |-> Rat(820, 1000),
     solar |-> Rat(48, 1000), wind |-> Rat(11, 1000),
     hydro |-> Rat(24, 1000), nuclear |-> Rat(12, 1000),
     biomass |-> Rat(230, 1000), renewable_mix |-> Rat(30, 1000),
     low_carbon_mix |-> Rat(100, 1000), renewable |-> Rat(20, 1000)]

\* a lookup that lets the table win over the explicit value
ResolveIntensity_TableFirst(electricity_source, electricity_carbon_intensity) ==
    IF electricity_source \in DOMAIN electricity_carbon_intensities
    THEN electricity_carbon_intensities[electricity_source]
    ELSE IF electricity_carbon_intensity = None
         THEN electricity_carbon_intensities["renewable"]
         ELSE electricity_carbon_intensity

\* the intensity the setter stores for a source tag and an optional override
ResolveIntensity(electricity_source, electricity_carbon_intensity) ==
    IF electricity_carbon_intensity = None
    THEN IF electricity_source \in DOMAIN electricity_carbon_intensities
         THEN electricity_carbon_intensities[electricity_source]
         ELSE electricity_carbon_intensities["renewable"]
    ELSE electricity_carbon_intensity

set_electrolysis_data(self, co2_electrolysis_efficiency, water_electrolysis_efficiency, electricity_source, energy_input_co, energy_input_h2, water, electricity_carbon_intensity) ==
    [self EXCEPT !.electrolysis_data =
        [co2_electrolysis_efficiency |-> co2_electrolysis_efficiency,
         water_electrolysis_efficiency |-> water_electrolysis_efficiency,
         electricity_source |-> electricity_source,
         electricity_carbon_intensity |->
             ResolveIntensity(electricity_source, electricity_carbon_intensity),
         energy_input_co |-> energy_input_co,
         energy_input_h2 |-> energy_input_h2,
         water_usage |-> water]]

(***************************************************************************)
(* calculate_lca.                                                          *)
(***************************************************************************)
NoError == "none"

MissingDataError == "ValueError: Missing required data for LCA calculation"

UnsupportedUnitError == "ValueError: Unsupported functional unit"

ZeroDivisionError == "ZeroDivisionError"

KeyErrorElectrolysis == "KeyError: co2_electrolysis_efficiency"

KeyErrorColumn == "KeyError: electrolysis_emissions"

\* a check that also requires the feedstock record
MissingRequired_WithFeedstock(self) ==
    \/ self.feedstock_data = EmptyDict
    \/ self.carbon_capture_data = EmptyDict
    \/ self.electrolysis_data = EmptyDict
    \/ self.conversion_data = EmptyDict
    \/ self.distribution_data = EmptyDict
    \/ self.use_phase_data = EmptyDict

\* not all([...]): an empty dict is falsy
MissingRequired(self) ==
    \/ self.carbon_capture_data = EmptyDict
    \/ self.electrolysis_data = EmptyDict
    \/ self.conversion_data = EmptyDict
    \/ self.distribution_data = EmptyDict
    \/ self.use_phase_data = EmptyDict

\* fuel density assumed for the L basis, kg/L
FuelDensity == Rat(8, 10)

normalization_factor(self) ==
    IF self.functional_unit = "MJ"
    THEN Div(N(1), self.use_phase_data["energy_density"])
    ELSE IF self.functional_unit = "kg" THEN N(1)
    ELSE FuelDensity

co_h2_ratio(self) == Get(self.conversion_data, "co_h2_ratio", N(1))

\* a calculation that takes every unit it does not know for the L basis
LcaError_UnitUnchecked(self) ==
    IF MissingRequired(self) THEN MissingDataError
    ELSE IF /\ self.functional_unit = "MJ"
            /\ IsZero(self.use_phase_data["energy_density"])
         THEN ZeroDivisionError
    ELSE IF IsZero(self.carbon_capture_data["capture_efficiency"])
         THEN ZeroDivisionError
    ELSE IF IsZero(Add(N(1), co_h2_ratio(self)))
         THEN ZeroDivisionError
    ELSE IF IsZero(self.electrolysis_data["co2_electrolysis_efficiency"])
         THEN ZeroDivisionError
    ELSE IF IsZero(self.electrolysis_data["water_electrolysis_efficiency"])
         THEN ZeroDivisionError
    ELSE NoError

\* the exception calculate_lca raises for this store, NoError when it returns
LcaError(self) ==
    IF MissingRequired(self) THEN MissingDataError
    ELSE IF /\ self.functional_unit = "MJ"
            /\ IsZero(self.use_phase_data["energy_density"])
         THEN ZeroDivisionError
    ELSE IF self.functional_unit \notin {"MJ", "kg", "L"}
         THEN UnsupportedUnitError
    ELSE IF IsZero(self.carbon_capture_data["capture_efficiency"])
         THEN ZeroDivisionError
    ELSE IF IsZero(Add(N(1), co_h2_ratio(self)))
         THEN ZeroDivisionError
    ELSE IF IsZero(self.electrolysis_data["co2_electrolysis_efficiency"])
         THEN ZeroDivisionError
    ELSE IF IsZero(self.electrolysis_data["water_electrolysis_efficiency"])
         THEN ZeroDivisionError
    ELSE NoError

\* a total that leaves out the last stage
RECURSIVE StageSum_DropLast(_)
StageSum_DropLast(values) ==
    IF Len(values) <= 2 THEN values[1]
    ELSE Add(StageSum_DropLast(SubSeq(values, 1, Len(values) - 1)),
             values[Len(values) - 1])

\* a + b + ... of the stage values, added left to right
RECURSIVE StageSum(_)
StageSum(values) ==
    IF Len(values) = 1 THEN values[1]
    ELSE Add(StageSum(SubSeq(values, 1, Len(values) - 1)), values[Len(values)])

\* the four mappings calculate_lca stores when it raises nothing
LcaResults(self) ==
    LET nf == normalization_factor(self)
        cc == self.carbon_capture_data
        el == self.electrolysis_data
        cv == self.conversion_data
        ds == self.distribution_data
        up == self.use_phase_data
        actual_co2_needed ==
            Div(cc["co2_capture_rate"], Div(cc["capture_efficiency"], N(100)))
        carbon_capture_ghg == Mul(Mul(cc["ghg_emissions"], actual_co2_needed), nf)
        elec_intensity_mj == Div(el["electricity_carbon_intensity"], Rat(36, 10))
        ratio == co_h2_ratio(self)
        total_syngas_needed == Mul(Get(cv, "syngas_requirement", Rat(25, 10)), nf)
        co_needed == Mul(total_syngas_needed, Div(ratio, Add(N(1), ratio)))
        h2_needed == Mul(total_syngas_needed, Div(N(1), Add(N(1), ratio)))
        actual_co_needed ==
            Div(co_needed, Div(el["co2_electrolysis_efficiency"], N(100)))
        actual_h2_needed ==
            Div(h2_needed, Div(el["water_electrolysis_efficiency"], N(100)))
        co_emissions ==
            Mul(Mul(actual_co_needed, el["energy_input_co"]), elec_intensity_mj)
        h2_emissions ==
            Mul(Mul(actual_h2_needed, el["energy_input_h2"]), elec_intensity_mj)
        electrolysis_ghg == Add(co_emissions, h2_emissions)
        conversion_ghg == Mul(cv["ghg_emissions"], nf)
        distribution_ghg == Mul(ds["ghg_emissions"], nf)
        use_phase_ghg == Mul(up["combustion_emissions"], nf)
        total_ghg ==
            StageSum(<<carbon_capture_ghg, electrolysis_ghg, conversion_ghg,
                       distribution_ghg, use_phase_ghg>>)
        carbon_capture_energy ==
            Mul(Mul(cc["energy_requirement"], actual_co2_needed), nf)
        co_energy == Mul(actual_co_needed, el["energy_input_co"])
        h2_energy == Mul(actual_h2_needed, el["energy_input_h2"])
        electrolysis_energy == Mul(Add(co_energy, h2_energy), nf)
        conversion_energy == Mul(cv["energy_input"], nf)
        distribution_energy == Mul(ds["energy_input"], nf)
        total_energy ==
            StageSum(<<carbon_capture_energy, electrolysis_energy,
                       conversion_energy, distribution_energy>>)
        carbon_capture_water == Mul(Mul(cc["water_usage"], actual_co2_needed), nf)
        electrolysis_water == Mul(el["water_usage"], total_syngas_needed)
        conversion_water == Mul(cv["water_usage"], nf)
    IN  [ghg_emissions |->
            [carbon_capture |-> carbon_capture_ghg,
             electrolysis |-> electrolysis_ghg,
             conversion |-> conversion_ghg,
             distribution |-> distribution_ghg,
             use_phase |-> use_phase_ghg,
             total |-> total_ghg],
         energy_consumption |->
            [carbon_capture |-> carbon_capture_energy,
             electrolysis |-> electrolysis_energy,
             conversion |-> conversion_energy,
             distribution |-> distribution_energy,
             total |-> total_energy],
         water_usage |->
            [carbon_capture |-> carbon_capture_water,
             electrolysis |-> electrolysis_water,
             conversion |-> conversion_water,
             total |-> StageSum(<<carbon_capture_water, electrolysis_water,
                                  conversion_water>>)],
         land_use |-> [total |-> N(0)]]

\* a calculation that empties the four mappings before it computes
calculate_lca_ResetFirst(self) ==
    LET e == LcaError(self)
    IN  [self |-> IF e = NoError THEN [self EXCEPT !.results = LcaResults(self)]
                  ELSE [self EXCEPT !.results = EmptyResults],
         err |-> e]

\* every division is made before the first mapping is stored, so a failing
\* call leaves self.results as it was
calculate_lca(self) ==
    LET e == LcaError(self)
    IN  [self |-> IF e = NoError THEN [self EXCEPT !.results = LcaResults(self)]
                  ELSE self,
         err |-> e]

(***************************************************************************)
(* calculate_emission_reduction.                                           *)
(***************************************************************************)
\* a stored kg CO2e figure as g CO2e per MJ; the caller has checked that the
\* energy density is not 0 when it is divided by
PerMJ(self, value) ==
    IF self.functional_unit = "MJ" THEN Mul(value, N(1000))
    ELSE Div(Mul(value, N(1000)), self.use_phase_data["energy_density"])

PerMJFails(self) ==
    /\ self.functional_unit # "MJ"
    /\ IsZero(self.use_phase_data["energy_density"])

Reduction(fossil_jet_emissions, saf_emissions) ==
    Mul(Div(Sub(fossil_jet_emissions, saf_emissions), fossil_jet_emissions), N(100))

\* a reporter that recomputes on every call
ResultsAbsent_Always(self) == TRUE

\* if not self.results["ghg_emissions"]
ResultsAbsent(self) == self.results.ghg_emissions = EmptyDict

calculate_emission_reduction(self, fossil_jet_emissions) ==
    LET run == ResultsAbsent(self)
        c == IF run THEN calculate_lca(self) ELSE [self |-> self, err |-> NoError]
        runs == IF run THEN 1 ELSE 0
    IN  IF c.err # NoError
        THEN [self |-> c.self, err |-> c.err, ret |-> None, lca_runs |-> runs]
        ELSE IF PerMJFails(c.self) \/ IsZero(fossil_jet_emissions)
        THEN [self |-> c.self, err |-> ZeroDivisionError, ret |-> None,
              lca_runs |-> runs]
        ELSE [self |-> c.self, err |-> NoError,
              ret |-> Reduction(fossil_jet_emissions,
                                PerMJ(c.self, c.self.results.ghg_emissions["total"])),
              lca_runs |-> runs]

(***************************************************************************)
(* analyze_electricity_sources.                                            *)
(***************************************************************************)
DefaultSources ==
    <<"renewable_mix", "grid_global", "grid_eu", "grid_us", "grid_china",
      "natural_gas", "coal", "solar", "wind", "hydro", "renewable">>

\* g CO2e/MJ of conventional jet fuel
FossilReference == N(89)

\* the parameters saved before the sweep
OriginalParameters(self) ==
    [source |-> Get(self.electrolysis_data, "electricity_source", "renewable"),
     intensity |-> Get(self.electrolysis_data, "electricity_carbon_intensity",
                       Rat(20, 1000)),
     co |-> Get(self.electrolysis_data, "energy_input_co", N(28)),
     h2 |-> Get(self.electrolysis_data, "energy_input_h2", N(55))]

\* the setter call of one iteration; the caller has checked the record exists
SweepSet(self, source, original) ==
    set_electrolysis_data(self,
        self.electrolysis_data["co2_electrolysis_efficiency"],
        self.electrolysis_data["water_electrolysis_efficiency"],
        source, original.co, original.h2,
        self.electrolysis_data["water_usage"], None)

\* the row appended after a successful run
SweepRow(self, source) ==
    LET saf_emissions == PerMJ(self, self.results.ghg_emissions["total"])
    IN  [electricity_source |-> source,
         carbon_intensity |-> self.electrolysis_data["electricity_carbon_intensity"],
         saf_emissions_mjbasis |-> saf_emissions,
         emission_reduction |-> Reduction(FossilReference, saf_emissions),
         electrolysis_emissions |->
             PerMJ(self, self.results.ghg_emissions["electrolysis"]),
         total_emissions |-> saf_emissions]

RECURSIVE Sweep(_, _, _, _)

\* the rest of one iteration, c being what its calculate_lca call made
SweepStep(c, sources, original, rows) ==
    IF c.err # NoError
    THEN [self |-> c.self, err |-> c.err, rows |-> rows]
    ELSE IF PerMJFails(c.self)
    THEN [self |-> c.self, err |-> ZeroDivisionError, rows |-> rows]
    ELSE Sweep(c.self, Tail(sources), original,
               Append(rows, SweepRow(c.self, Head(sources))))

\* the for loop: the object, the exception and the rows when it ends
Sweep(self, sources, original, rows) ==
    IF sources = <<>>
    THEN [self |-> self, err |-> NoError, rows |-> rows]
    ELSE IF self.electrolysis_data = EmptyDict
    THEN [self |-> self, err |-> KeyErrorElectrolysis, rows |-> rows]
    ELSE SweepStep(calculate_lca(SweepSet(self, Head(sources), original)),
                   sources, original, rows)

\* a restore that passes no explicit intensity, as the loop's calls do
RestoreOriginal_Rederive(self, original) ==
    set_electrolysis_data(self,
        self.electrolysis_data["co2_electrolysis_efficiency"],
        self.electrolysis_data["water_electrolysis_efficiency"],
        original.source, original.co, original.h2,
        self.electrolysis_data["water_usage"], None)

\* the setter call after the loop; the caller has checked the record exists
RestoreOriginal(self, original) ==
    set_electrolysis_data(self,
        self.electrolysis_data["co2_electrolysis_efficiency"],
        self.electrolysis_data["water_electrolysis_efficiency"],
        original.source, original.co, original.h2,
        self.electrolysis_data["water_usage"], original.intensity)

\* an analysis that ends without the last calculate_lca call
Recalculate_Skip(self) == [self |-> self, err |-> NoError]

\* the calculate_lca call after the restore
Recalculate(self) == calculate_lca(self)

\* float64 division of two columns: no exception, inf or NaN for a 0 divisor
ColumnDiv(a, b) ==
    IF ~IsZero(b) THEN Div(a, b)
    ELSE IF a[1] > 0 THEN <<1, 0>>
    ELSE IF a[1] < 0 THEN <<-1, 0>>
    ELSE <<0, 0>>

ColumnTimes(a, b) == IF a[2] = 0 THEN a ELSE Mul(a, b)

\* pd.DataFrame(results) with the electrolysis_contribution column
DataFrame(rows) ==
    [i \in 1..Len(rows) |->
        rows[i] @@
        [electrolysis_contribution |->
            ColumnTimes(ColumnDiv(rows[i].electrolysis_emissions,
                                  rows[i].total_emissions), N(100))]]

NoTable == <<>>

\* the return statement, c being what the last calculate_lca call made
SweepTable(c, rows) ==
    IF c.err # NoError
    THEN [self |-> c.self, err |-> c.err, ret |-> NoTable]
    ELSE IF rows = <<>>
    THEN [self |-> c.self, err |-> KeyErrorColumn, ret |-> NoTable]
    ELSE [self |-> c.self, err |-> NoError, ret |-> DataFrame(rows)]

\* the statements after the loop, sw being what the loop made
AfterSweep(sw, original) ==
    IF sw.err # NoError
    THEN [self |-> sw.self, err |-> sw.err, ret |-> NoTable]
    ELSE IF sw.self.electrolysis_data = EmptyDict
    THEN [self |-> sw.self, err |-> KeyErrorElectrolysis, ret |-> NoTable]
    ELSE SweepTable(Recalculate(RestoreOriginal(sw.self, original)), sw.rows)

analyze_electricity_sources(self, electricity_sources) ==
    AfterSweep(Sweep(self,
                     IF electricity_sources = NoSources THEN DefaultSources
                     ELSE electricity_sources,
                     OriginalParameters(self), <<>>),
               OriginalParameters(self))

(***************************************************************************)
(* The calls a client makes, one action per method.                        *)
(***************************************************************************)
\* the object after a call
Becomes(self) ==
    /\ functional_unit' = self.functional_unit
    /\ feedstock_data' = self.feedstock_data
    /\ conversion_data' = self.conversion_data
    /\ distribution_data' = self.distribution_data
    /\ use_phase_data' = self.use_phase_data
    /\ carbon_capture_data' = self.carbon_capture_data
    /\ electrolysis_data' = self.electrolysis_data
    /\ results' = self.results

\* the record of a call: its name and arguments, the exception it raised, the
\* number or the table it returned (calculate_lca returns self.results, which
\* the variable results holds), the number of calculate_lca runs it made, and
\* what the caller could observe when it made the call
Call(op, args, err, ret, table, lca_runs) ==
    [op |-> op, args |-> args, err |-> err, ret |-> ret, table |-> table,
     lca_runs |-> lca_runs,
     unit_before |-> functional_unit,
     results_before |-> results.ghg_emissions # EmptyDict]

\* no analysis is being stepped through
NoSweeps == <<>>

\* a call made in one piece: the record of it, and no analysis in progress
Returns(op, args, err, ret, table, lca_runs) ==
    /\ last' = Call(op, args, err, ret, table, lca_runs)
    /\ sweeps' = sweeps

\* the same behaviour as New, but the unit is rebound on the live object
New_KeepResults ==
    \E unit \in Units :
        /\ Becomes([Self EXCEPT !.functional_unit = unit])
        /\ Returns("__init__", <<unit>>, NoError, None, NoTable, 0)

New ==
    \E unit \in Units :
        /\ Becomes(__init__(unit))
        /\ Returns("__init__", <<unit>>, NoError, None, NoTable, 0)

SetFeedstock ==
    /\ Becomes(set_feedstock_data(Self, "corn", Rat(1, 2), N(3), N(100), N(2),
                                  N(5000)))
    /\ Returns("set_feedstock_data", <<>>, NoError, None, NoTable, 0)

SetConversion ==
    \E optional \in ConversionArgs :
        /\ Becomes(set_conversion_data(Self, "Fischer-Tropsch", Rat(65, 100),
                                       Rat(2, 10), N(25), N(5), optional[1],
                                       optional[2]))
        /\ Returns("set_conversion_data", optional, NoError, None, NoTable, 0)

SetDistribution ==
    /\ Becomes(set_distribution_data(Self, N(500), "truck", Rat(5, 100), N(2)))
    /\ Returns("set_distribution_data", <<>>, NoError, None, NoTable, 0)

SetUsePhase ==
    \E density \in EnergyDensityArgs :
        /\ Becomes(set_use_phase_data(Self, Rat(1, 10), density))
        /\ Returns("set_use_phase_data", <<density>>, NoError, None, NoTable, 0)

SetCarbonCapture ==
    \E efficiency \in CaptureEfficiencyArgs :
        /\ Becomes(set_carbon_capture_data(Self, efficiency, N(30), Rat(8, 100),
                                           N(5), N(3)))
        /\ Returns("set_carbon_capture_data", <<efficiency>>, NoError, None, NoTable, 0)

SetElectrolysis ==
    \E a \in ElectrolysisArgs :
        /\ Becomes(set_electrolysis_data(Self, a[1], a[2], a[3], N(30), N(60),
                                         N(20), a[4]))
        /\ Returns("set_electrolysis_data", <<a[1], a[3], a[4], a[2]>>, NoError,
                   None, NoTable, 0)

CalculateLca ==
    LET c == calculate_lca(Self)
    IN  /\ Becomes(c.self)
        /\ Returns("calculate_lca", <<>>, c.err, None, NoTable, 1)

CalculateEmissionReduction ==
    \E fossil \in FossilArgs :
        LET c == calculate_emission_reduction(Self, fossil)
        IN  /\ Becomes(c.self)
            /\ Returns("calculate_emission_reduction", <<fossil>>, c.err, c.ret,
                       NoTable, c.lca_runs)

AnalyzeElectricitySources ==
    \E sources \in SourceListArgs :
        \E c \in {analyze_electricity_sources(Self, sources)} :
            /\ Becomes(c.self)
            /\ Returns("analyze_electricity_sources", <<sources>>, c.err, None,
                       c.ret, 0)

Init ==
    \E unit \in Units :
        /\ functional_unit = __init__(unit).functional_unit
        /\ feedstock_data = __init__(unit).feedstock_data
        /\ conversion_data = __init__(unit).conversion_data
        /\ distribution_data = __init__(unit).distribution_data
        /\ use_phase_data = __init__(unit).use_phase_data
        /\ carbon_capture_data = __init__(unit).carbon_capture_data
        /\ electrolysis_data = __init__(unit).electrolysis_data
        /\ results = __init__(unit).results
        /\ last = [op |-> "__init__", args |-> <<unit>>, err |-> NoError,
                   ret |-> None, table |-> NoTable, lca_runs |-> 0,
                   unit_before |-> unit,
                   results_before |-> FALSE]
        /\ sweeps = NoSweeps

Next ==
    \/ New
    \/ SetFeedstock
    \/ SetConversion
    \/ SetDistribution
    \/ SetUsePhase
    \/ SetCarbonCapture
    \/ SetElectrolysis
    \/ CalculateLca
    \/ CalculateEmissionReduction
    \/ AnalyzeElectricitySources

Spec == Init /\ [][Next]_vars

(***************************************************************************)
(* Two callers running analyze_electricity_sources on one shared object,   *)
(* interleaved at its set_electrolysis_data and calculate_lca calls.  The  *)
(* method takes no lock and makes no copy of the store.                    *)
(***************************************************************************)
Callers == {"a", "b"}

\* the argument of a caller that never set the electrolysis record
NotSet == <<>>

\* a store the sweeps are started on: every other record set, and the
\* electrolysis record set with a, or left unset
Prepared(unit, a) ==
    LET self == set_carbon_capture_data(
                    set_use_phase_data(
                        set_distribution_data(
                            set_conversion_data(__init__(unit),
                                "Fischer-Tropsch", Rat(65, 100), Rat(2, 10),
                                N(25), N(5), N(2), None),
                            N(500), "truck", Rat(5, 100), N(2)),
                        Rat(1, 10), N(40)),
                    N(50), N(30), Rat(8, 100), N(5), N(3))
    IN  IF a = NotSet THEN self
        ELSE set_electrolysis_data(self, a[1], a[2], a[3], N(30), N(60), N(20),
                                   a[4])

\* the locals of one call: where it is, the sources left to sweep, the saved
\* parameters, the rows appended and the exception it ended with
Entered(sources) ==
    [pc |-> "save", sources |-> sources,
     original |-> OriginalParameters(__init__("MJ")), rows |-> <<>>,
     err |-> NoError]

InitInterleaved ==
    \E unit \in Units, a \in ElectrolysisArgs \cup {NotSet},
       given \in [Callers -> SeqsUpTo(SweepTags, MaxSources)] :
        LET self == Prepared(unit, a)
        IN  /\ functional_unit = self.functional_unit
            /\ feedstock_data = self.feedstock_data
            /\ conversion_data = self.conversion_data
            /\ distribution_data = self.distribution_data
            /\ use_phase_data = self.use_phase_data
            /\ carbon_capture_data = self.carbon_capture_data
            /\ electrolysis_data = self.electrolysis_data
            /\ results = self.results
            /\ last = [op |-> "__init__", args |-> <<unit>>, err |-> NoError,
                       ret |-> None, table |-> NoTable, lca_runs |-> 0,
                       unit_before |-> unit, results_before |-> FALSE]
            /\ sweeps = [before |-> self,
                         call |-> [c \in Callers |-> Entered(given[c])]]

\* caller c moves on with new locals
Moves(c, locals) == sweeps' = [sweeps EXCEPT !.call[c] = locals]

Stepped(c, step, err, lca_runs) ==
    last' = Call("analyze_electricity_sources", <<c, step>>, err, None, NoTable,
                 lca_runs)

\* lines 265-269: the parameters to restore are read from the shared store
SweepSave(c) ==
    LET my == sweeps.call[c]
    IN  /\ my.pc = "save"
        /\ Becomes(Self)
        /\ Moves(c, [my EXCEPT !.pc = "loop",
                               !.original = OriginalParameters(Self)])
        /\ Stepped(c, "save", NoError, 0)

\* lines 276-284: the next source is written to the shared store
SweepSetSource(c) ==
    LET my == sweeps.call[c]
    IN  /\ my.pc = "loop"
        /\ my.sources # <<>>
        /\ IF electrolysis_data = EmptyDict
           THEN /\ Becomes(Self)
                /\ Moves(c, [my EXCEPT !.pc = "raised",
                                       !.err = KeyErrorElectrolysis])
                /\ Stepped(c, "set", KeyErrorElectrolysis, 0)
           ELSE /\ Becomes(SweepSet(Self, Head(my.sources), my.original))
                /\ Moves(c, [my EXCEPT !.pc = "calculate"])
                /\ Stepped(c, "set", NoError, 0)

\* what the calculate_lca call of line 287 and the row of lines 290-306 make
\* of the locals, r being what the call made of the shared store
SweepCalculated(my, r) ==
    IF r.err # NoError THEN [my EXCEPT !.pc = "raised", !.err = r.err]
    ELSE IF PerMJFails(r.self)
    THEN [my EXCEPT !.pc = "raised", !.err = ZeroDivisionError]
    ELSE [my EXCEPT !.pc = "loop", !.sources = Tail(my.sources),
                    !.rows = Append(my.rows, SweepRow(r.self, Head(my.sources)))]

\* lines 287-306: the shared store is calculated and the row read from it
SweepCalculate(c) ==
    /\ sweeps.call[c].pc = "calculate"
    /\ \E r \in {calculate_lca(Self)} :
           /\ Becomes(r.self)
           /\ \E locals \in {SweepCalculated(sweeps.call[c], r)} :
                  /\ Moves(c, locals)
                  /\ Stepped(c, "calculate", locals.err, 1)

\* lines 309-317: the saved parameters are written back
SweepRestore(c) ==
    LET my == sweeps.call[c]
    IN  /\ my.pc = "loop"
        /\ my.sources = <<>>
        /\ IF electrolysis_data = EmptyDict
           THEN /\ Becomes(Self)
                /\ Moves(c, [my EXCEPT !.pc = "raised",
                                       !.err = KeyErrorElectrolysis])
                /\ Stepped(c, "restore", KeyErrorElectrolysis, 0)
           ELSE /\ Becomes(RestoreOriginal(Self, my.original))
                /\ Moves(c, [my EXCEPT !.pc = "recalculate"])
                /\ Stepped(c, "restore", NoError, 0)

\* lines 320-328: the last calculate_lca call and the table, t being what
\* SweepTable makes of them
SweepReturned(my, t) ==
    IF t.err # NoError THEN [my EXCEPT !.pc = "raised", !.err = t.err]
    ELSE [my EXCEPT !.pc = "returned", !.rows = t.ret]

SweepRecalculate(c) ==
    /\ sweeps.call[c].pc = "recalculate"
    /\ \E t \in {SweepTable(Recalculate(Self), sweeps.call[c].rows)} :
           /\ Becomes(t.self)
           /\ \E locals \in {SweepReturned(sweeps.call[c], t)} :
                  /\ Moves(c, locals)
                  /\ Stepped(c, "recalculate", locals.err, 1)

NextInterleaved ==
    \/ \E c \in Callers : SweepSave(c)
    \/ \E c \in Callers : SweepSetSource(c)
    \/ \E c \in Callers : SweepCalculate(c)
    \/ \E c \in Callers : SweepRestore(c)
    \/ \E c \in Callers : SweepRecalculate(c)

SpecInterleaved == InitInterleaved /\ [][NextInterleaved]_vars

(***************************************************************************)
(* The claims.                                                             *)
(***************************************************************************)
Analyzed == last.op = "analyze_electricity_sources"

\* the list the last analysis swept: the default list when None was passed
SweptSources ==
    IF last.args[1] = NoSources THEN DefaultSources ELSE last.args[1]

SourceAndIntensity(d) ==
    <<d["electricity_source"], d["electricity_carbon_intensity"]>>

\* C1: when analyze_electricity_sources completes, the electrolysis record's
\* electricity_source and electricity_carbon_intensity are the values they had
\* immediately before the call, whatever list was swept and also when the
\* intensity was an explicit override that differs from the table value.
C1_SweepRestoresSource ==
    [][(last'.op = "analyze_electricity_sources" /\ last'.err = NoError)
        => /\ electrolysis_data # EmptyDict
           /\ SourceAndIntensity(electrolysis_data') =
                  SourceAndIntensity(electrolysis_data)]_vars

\* a completed sweep over an unrecognized tag, on a store whose intensity is
\* an override that differs from the table value of its tag
C1_Witness ==
    /\ Analyzed
    /\ last.err = NoError
    /\ last.args[1] = <<"fusion">>
    /\ electrolysis_data["electricity_source"] = "coal"
    /\ electrolysis_data["electricity_carbon_intensity"] = Rat(1, 2)
    /\ electricity_carbon_intensities["coal"] # Rat(1, 2)

\* C2: when a calculate_lca run of the sweep fails (a required record is
\* missing, the functional unit is unsupported), the electrolysis record's
\* electricity_source and electricity_carbon_intensity observed after the
\* failed call are the values from before the call.
C2_RestoredOnFailure ==
    [][(/\ last'.op = "analyze_electricity_sources"
        /\ last'.err \in {MissingDataError, UnsupportedUnitError}
        /\ electrolysis_data # EmptyDict)
        => SourceAndIntensity(electrolysis_data') =
               SourceAndIntensity(electrolysis_data)]_vars

\* C3: after analyze_electricity_sources completes, the four result mappings
\* are what calculate_lca produces for the stage parameters from before the
\* sweep, not the results of the last swept source.
C3_ResultsOfOriginal ==
    [][(last'.op = "analyze_electricity_sources" /\ last'.err = NoError)
        => /\ LcaError(Self) = NoError
           /\ results' = calculate_lca(Self).self.results]_vars

\* a completed sweep whose last source gives other results than the original
C3_Witness ==
    /\ Analyzed
    /\ last.err = NoError
    /\ last.args[1] = <<"wind">>
    /\ results = LcaResults(Self)
    /\ results # LcaResults(SweepSet(Self, "wind", OriginalParameters(Self)))

\* C4: calculate_lca fails with the missing-data error exactly when at least
\* one of the carbon-capture, electrolysis, conversion, distribution and
\* use-phase records has not been set; a missing feedstock record never makes
\* it fail, and the order of the setter calls does not matter.  A record has
\* been set when its setter has been called, and it then stays non-empty.
C4_MissingDataExactly ==
    /\ last.op = "calculate_lca" =>
          (last.err = MissingDataError <=>
              \/ carbon_capture_data = EmptyDict
              \/ electrolysis_data = EmptyDict
              \/ conversion_data = EmptyDict
              \/ distribution_data = EmptyDict
              \/ use_phase_data = EmptyDict)
    /\ last.op = "set_carbon_capture_data" => carbon_capture_data # EmptyDict
    /\ last.op = "set_electrolysis_data" => electrolysis_data # EmptyDict
    /\ last.op = "set_conversion_data" => conversion_data # EmptyDict
    /\ last.op = "set_distribution_data" => distribution_data # EmptyDict
    /\ last.op = "set_use_phase_data" => use_phase_data # EmptyDict

\* calculate_lca has returned results on a store without a feedstock record
C4_Witness ==
    /\ last.op = "calculate_lca"
    /\ last.err = NoError
    /\ feedstock_data = EmptyDict
    /\ results.ghg_emissions # EmptyDict

\* C5: when a required stage record is absent, analyze_electricity_sources
\* fails with the missing-data error of calculate_lca, whichever of the five
\* records is the absent one and whatever list is supplied.
C5_MissingDataPropagates ==
    (Analyzed /\ MissingRequired(Self)) => last.err = MissingDataError

\* C6: after set_electrolysis_data the stored intensity is the explicit value
\* when one is supplied, otherwise the table intensity of a recognized tag,
\* otherwise 0.020; the call does not fail and the record keeps the tag.
C6_StoredIntensity ==
    last.op = "set_electrolysis_data" =>
        LET source == last.args[2]
            explicit == last.args[3]
        IN  /\ last.err = NoError
            /\ electrolysis_data["electricity_source"] = source
            /\ electrolysis_data["electricity_carbon_intensity"] =
                   IF explicit # None THEN explicit
                   ELSE IF source \in DOMAIN electricity_carbon_intensities
                        THEN electricity_carbon_intensities[source]
                        ELSE <<1, 50>>

\* the setter has stored an explicit value for a recognized tag
C6_Witness ==
    /\ last.op = "set_electrolysis_data"
    /\ last.args[2] = "coal"
    /\ last.args[3] = Rat(1, 2)
    /\ electrolysis_data["electricity_carbon_intensity"] = Rat(1, 2)

\* C7: for every supplied list, the empty list included, the analysis of a
\* store that calculate_lca accepts returns a table with one row per source
\* in the supplied order, each row carrying the table intensity of its tag
\* (0.020 for an unrecognized tag), whatever override was stored before.
C7_OneRowPerSource ==
    (Analyzed /\ LcaError(Self) = NoError /\ ~PerMJFails(Self)) =>
        /\ last.err = NoError
        /\ Len(last.table) = Len(SweptSources)
        /\ \A i \in 1..Len(SweptSources) :
              /\ i \in DOMAIN last.table
              /\ last.table[i].electricity_source = SweptSources[i]
              /\ last.table[i].carbon_intensity =
                     IF SweptSources[i] \in DOMAIN electricity_carbon_intensities
                     THEN electricity_carbon_intensities[SweptSources[i]]
                     ELSE <<1, 50>>

\* C8: calculate_emission_reduction runs calculate_lca if and only if the GHG
\* mapping is empty when it is called; with results present it leaves the
\* four mappings and every stage record as they were, and the value it
\* returns is the reduction derived from the stored total.
C8_RecomputeOnlyWhenAbsent ==
    [][last'.op = "calculate_emission_reduction"
        => /\ last'.lca_runs = (IF results.ghg_emissions = EmptyDict THEN 1 ELSE 0)
           /\ results.ghg_emissions # EmptyDict =>
                 /\ UNCHANGED <<functional_unit, feedstock_data, conversion_data,
                                distribution_data, use_phase_data,
                                carbon_capture_data, electrolysis_data, results>>
                 /\ last'.err = NoError =>
                        last'.ret =
                            Reduction(last'.args[1],
                                      PerMJ(Self, results.ghg_emissions["total"]))]_vars

\* the reporter has returned from results that the store no longer produces
C8_Witness ==
    /\ last.op = "calculate_emission_reduction"
    /\ last.err = NoError
    /\ last.lca_runs = 0
    /\ LcaError(Self) = NoError
    /\ results # LcaResults(Self)

\* C9: changing the functional unit invalidates the cached results: a step
\* that changes the unit leaves no results behind, so no reader combines
\* values computed under one unit with the conversion of another.
C9_UnitChangeClearsResults ==
    [][functional_unit' # functional_unit => results' = EmptyResults]_vars

\* a model with another unit has replaced one that held results
C9_Witness ==
    /\ last.op = "__init__"
    /\ last.results_before
    /\ last.unit_before # functional_unit
    /\ last.unit_before \in SupportedUnits
    /\ functional_unit \in SupportedUnits

\* the normalization factor of a unit, as the claim states it
ClaimedFactor(unit, self) ==
    IF unit = "MJ" THEN Div(N(1), self.use_phase_data["energy_density"])
    ELSE IF unit = "kg" THEN N(1)
    ELSE Rat(8, 10)

Scaled(mapping, factor) == [k \in DOMAIN mapping |-> Mul(mapping[k], factor)]

\* C10: for one stage-parameter set, the results under two supported units
\* differ by one factor: every stage value and total of the GHG, energy and
\* water mappings under U2 is the value under U1 times nf(U2)/nf(U1).
C10_UniformRescaling ==
    (last.op = "calculate_lca" /\ last.err = NoError) =>
        \A unit \in SupportedUnits :
            LET other == [Self EXCEPT !.functional_unit = unit]
                factor == Div(ClaimedFactor(unit, Self),
                              ClaimedFactor(functional_unit, Self))
            IN  LcaError(other) = NoError =>
                    /\ LcaResults(other).ghg_emissions =
                           Scaled(results.ghg_emissions, factor)
                    /\ LcaResults(other).energy_consumption =
                           Scaled(results.energy_consumption, factor)
                    /\ LcaResults(other).water_usage =
                           Scaled(results.water_usage, factor)

\* the g CO2e per MJ figure of a model, from the results it computes
SafEmissionsMJBasis(self) == PerMJ(self, LcaResults(self).ghg_emissions["total"])

\* C11: the per-MJ SAF emissions figure, and hence the emission reduction, is
\* on a fixed 1 MJ basis: for one stage-parameter set the reporter's reduction
\* and the sweep table's saf_emissions_mjbasis column are the same under every
\* supported functional unit.
C11_PerMJUnitIndependent ==
    \A unit \in SupportedUnits :
        LET other == [Self EXCEPT !.functional_unit = unit]
        IN  (LcaError(other) = NoError /\ ~PerMJFails(other)) =>
                /\ (last.op = "calculate_emission_reduction" /\ last.err = NoError
                        /\ last.lca_runs = 1) =>
                       last.ret = Reduction(last.args[1], SafEmissionsMJBasis(other))
                /\ (last.op = "analyze_electricity_sources" /\ last.err = NoError) =>
                       \A i \in DOMAIN last.table :
                           last.table[i].saf_emissions_mjbasis =
                               analyze_electricity_sources(other, last.args[1])
                                   .ret[i].saf_emissions_mjbasis

\* a percentage in (0, 100]
IsPercentage(x) == x[1] > 0 /\ x[1] <= 100 * x[2]

\* C12: every capture_efficiency, co2_electrolysis_efficiency and
\* water_electrolysis_efficiency held in the store lies in (0, 100]: a setter
\* call that supplies an efficiency of 0 is rejected and stores nothing.
C12_EfficienciesInRange ==
    /\ carbon_capture_data # EmptyDict =>
           IsPercentage(carbon_capture_data["capture_efficiency"])
    /\ electrolysis_data # EmptyDict =>
           /\ IsPercentage(electrolysis_data["co2_electrolysis_efficiency"])
           /\ IsPercentage(electrolysis_data["water_electrolysis_efficiency"])
    /\ (last.op = "set_carbon_capture_data" /\ IsZero(last.args[1])) =>
           last.err # NoError
    /\ (last.op = "set_electrolysis_data"
           /\ (IsZero(last.args[1]) \/ IsZero(last.args[4]))) =>
           last.err # NoError

\* C13: calculate_lca on a model whose functional unit is outside MJ, kg and
\* L, with the five required records present, fails with the unsupported-unit
\* error and stores no results; under MJ, kg and L it never raises that error.
C13_UnsupportedUnit ==
    last.op = "calculate_lca" =>
        /\ (functional_unit \notin SupportedUnits /\ ~MissingRequired(Self)) =>
               /\ last.err = UnsupportedUnitError
               /\ results = EmptyResults
        /\ functional_unit \in SupportedUnits => last.err # UnsupportedUnitError

\* the unsupported unit is reported although the store also holds an
\* efficiency the later division would fail on
C13_Witness ==
    /\ last.op = "calculate_lca"
    /\ last.err = UnsupportedUnitError
    /\ functional_unit \notin SupportedUnits
    /\ IsZero(carbon_capture_data["capture_efficiency"])

\* the row an analysis of the one source makes on a store of its own
IsolatedRow(self, source) == analyze_electricity_sources(self, <<source>>).ret[1]

\* C14: the sweep behaves as a single transaction: when two analyses are
\* interleaved on one shared model at their set_electrolysis_data and
\* calculate_lca steps and both have returned, the store's electricity_source
\* and electricity_carbon_intensity are those held before either started, and
\* every row of both tables was computed with that row's own source.
C14_SweepsAreTransactions ==
    (\A c \in Callers : sweeps.call[c].pc = "returned") =>
        /\ SourceAndIntensity(electrolysis_data) =
               SourceAndIntensity(sweeps.before.electrolysis_data)
        /\ \A c \in Callers :
               \A i \in DOMAIN sweeps.call[c].rows :
                   sweeps.call[c].rows[i] =
                       IsolatedRow(sweeps.before,
                                   sweeps.call[c].rows[i].electricity_source)

\* the four mappings are all empty or all filled
AllOrNone(mappings) ==
    \/ \A k \in DOMAIN mappings : mappings[k] = EmptyDict
    \/ \A k \in DOMAIN mappings : mappings[k] # EmptyDict

\* C15: calculate_lca is all-or-nothing on the results: a call that fails
\* (missing record, unsupported unit, an efficiency of 0, energy_density 0
\* under MJ, co_h2_ratio -1) leaves the four mappings as they were and a call
\* that succeeds replaces all four with the values of that run; so after
\* every step of every method the four mappings are all empty or are all the
\* values of one calculate_lca run.
C15_AllOrNothing ==
    [][/\ (last'.op = "calculate_lca" /\ last'.err # NoError) =>
              results' = results
       /\ (last'.op = "calculate_lca" /\ last'.err = NoError) =>
              results' = LcaResults(Self)
       /\ AllOrNone(results')
       /\ \/ results' = results
          \/ results' = EmptyResults
          \/ LcaError(Self') = NoError /\ results' = LcaResults(Self')]_vars

\* a call has failed on an efficiency of 0 and the results of an earlier
\* run are still held
C15_Witness ==
    /\ last.op = "calculate_lca"
    /\ last.err = ZeroDivisionError
    /\ last.results_before
    /\ results # EmptyResults
    /\ functional_unit # "MJ"

\* the sum of the entries of a mapping under the given keys
RECURSIVE SumOver(_, _)
SumOver(mapping, keys) ==
    IF keys = {} THEN N(0)
    ELSE LET k == CHOOSE x \in keys : TRUE
         IN  Add(mapping[k], SumOver(mapping, keys \ {k}))

\* the mapping has the given stage entries and a total that is their sum
TotalOfStages(mapping, stages) ==
    /\ DOMAIN mapping = stages \cup {"total"}
    /\ mapping["total"] = SumOver(mapping, stages)

\* C16: each non-empty result mapping has a total equal to the sum of its
\* stage entries: five stages for GHG, four for energy, three for water, and
\* land_use holds no stage and a total of exactly 0.
C16_TotalsAreSums ==
    /\ results.ghg_emissions # EmptyDict =>
           TotalOfStages(results.ghg_emissions,
                         {"carbon_capture", "electrolysis", "conversion",
                          "distribution", "use_phase"})
    /\ results.energy_consumption # EmptyDict =>
           TotalOfStages(results.energy_consumption,
                         {"carbon_capture", "electrolysis", "conversion",
                          "distribution"})
    /\ results.water_usage # EmptyDict =>
           TotalOfStages(results.water_usage,
                         {"carbon_capture", "electrolysis", "conversion"})
    /\ results.land_use # EmptyDict => results.land_use = [total |-> N(0)]

\* results are held whose last stage of each mapping is not 0
C16_Witness ==
    /\ results.land_use = [total |-> N(0)]
    /\ ~IsZero(results.ghg_emissions["use_phase"])
    /\ ~IsZero(results.energy_consumption["distribution"])
    /\ ~IsZero(results.water_usage["conversion"])

====
